---- MODULE Spec2Model ----
(***************************************************************************)
(* Looplite: a minimal HTTP/1.1 request dispatcher (looplite/looplite.py). *)
(* One connection is handled by Looplite.handle: Request.from_stream       *)
(* frames a request out of the byte stream, get_handler_and_path_params    *)
(* resolves it against the route table, _get_args binds the handler's      *)
(* parameters, the handler runs, Response.to_bytes serializes the result,  *)
(* and the bytes are written before the connection is closed.              *)
(*                                                                         *)
(* Bytes and text are sequences of one-character strings.  A Python dict   *)
(* is a sequence of <<key, value>> pairs in insertion order with unique    *)
(* keys.  A Python value is a record [t |-> type tag, <field> |-> payload] *)
(* whose payload field is named after the type.  A fallible operation      *)
(* returns [ok |-> TRUE, v |-> value] or [ok |-> FALSE, e |-> exception].  *)
(***************************************************************************)
EXTENDS Integers, Sequences, FiniteSets, TLC

VARIABLES
    routes,        \* Looplite.routes: sequence of [m, regex, handler]
    pc,            \* position of the handle coroutine
    stream,        \* bytes the peer has sent that reader has not returned yet
    header_data,   \* from_stream: accumulated buffer
    request_text,  \* from_stream: decoded header block
    body,          \* from_stream: body bytes captured so far
    remaining,     \* from_stream: bytes still to read with readexactly
    request,       \* the Request built by from_raw
    handler,       \* handle: resolved handler
    path_params,   \* handle: resolved path variables
    args,          \* handle: the mapping _get_args returned
    result,        \* handle: what the awaited handler call returned
    raised,        \* handle: the exception caught by the try
    response,      \* handle: the Response to send
    written,       \* sequence of byte strings passed to writer.write
    closed,        \* number of writer.close() calls
    exc,           \* exception that propagated out of handle
    wire,          \* history: the whole byte sequence the peer sends
    nchunks,       \* history: number of non-empty chunks reader.read returned
    ninvoked,      \* history: number of handler invocations
    tasks          \* run: the handle task of each connection of the server

vars == <<routes, pc, stream, header_data, request_text, body, remaining,
          request, handler, path_params, args, result, raised, response, written,
          closed, exc, wire, nchunks, ninvoked, tasks>>

(***************************************************************************)
(* Text helpers (Python str / bytes methods)                               *)
(***************************************************************************)
UpperCase == <<"A","B","C","D","E","F","G","H","I","J","K","L","M",
               "N","O","P","Q","R","S","T","U","V","W","X","Y","Z">>
LowerCase == <<"a","b","c","d","e","f","g","h","i","j","k","l","m",
               "n","o","p","q","r","s","t","u","v","w","x","y","z">>
Digits == <<"0","1","2","3","4","5","6","7","8","9">>

Min(a, b) == IF a < b THEN a ELSE b

Ok(v) == [ok |-> TRUE, v |-> v]
Raise(e) == [ok |-> FALSE, e |-> e]

\* str.lower()
lower(s) ==
    [i \in 1..Len(s) |->
        IF \E k \in 1..26 : UpperCase[k] = s[i]
        THEN LowerCase[CHOOSE k \in 1..26 : UpperCase[k] = s[i]]
        ELSE s[i]]

\* str.upper()
upper(s) ==
    [i \in 1..Len(s) |->
        IF \E k \in 1..26 : LowerCase[k] = s[i]
        THEN UpperCase[CHOOSE k \in 1..26 : LowerCase[k] = s[i]]
        ELSE s[i]]

\* str.startswith(p)
startswith(s, p) == Len(s) >= Len(p) /\ SubSeq(s, 1, Len(p)) = p

\* 1-based index of the first occurrence of sub in s, 0 when there is none
\* (str.find, which answers 0-based and -1)
find(s, sub) ==
    LET hits == {i \in 1..(Len(s) - Len(sub) + 1) : SubSeq(s, i, i + Len(sub) - 1) = sub}
    IN IF hits = {} THEN 0 ELSE CHOOSE i \in hits : \A j \in hits : i <= j

\* sub in s
contains(s, sub) == find(s, sub) # 0

\* s.split(sep, 1): one or two pieces
split1(s, sep) ==
    LET i == find(s, sep)
    IN IF i = 0 THEN <<s>>
       ELSE <<SubSeq(s, 1, i - 1), SubSeq(s, i + Len(sep), Len(s))>>

\* s.split(sep): all pieces
RECURSIVE split(_, _)
split(s, sep) ==
    LET i == find(s, sep)
    IN IF i = 0 THEN <<s>>
       ELSE <<SubSeq(s, 1, i - 1)>> \o split(SubSeq(s, i + Len(sep), Len(s)), sep)

\* The whitespace of the model's alphabet (str.strip(), str.split())
IsSpace(c) == c \in {" ", "\t", "\r", "\n"}

\* str.strip()
RECURSIVE lstrip(_)
lstrip(s) == IF s # <<>> /\ IsSpace(Head(s)) THEN lstrip(Tail(s)) ELSE s
RECURSIVE rstrip(_)
rstrip(s) ==
    IF s # <<>> /\ IsSpace(s[Len(s)]) THEN rstrip(SubSeq(s, 1, Len(s) - 1)) ELSE s
strip(s) == rstrip(lstrip(s))

\* str.split() with no separator: the runs of non-whitespace
RECURSIVE words(_)
words(s) ==
    LET t == lstrip(s)
        stops == {i \in 1..Len(t) : IsSpace(t[i])}
        e == IF stops = {} THEN Len(t) + 1 ELSE CHOOSE i \in stops : \A j \in stops : i <= j
    IN IF t = <<>> THEN <<>>
       ELSE <<SubSeq(t, 1, e - 1)>> \o words(SubSeq(t, e, Len(t)))

\* str.splitlines(): lines end at \r\n, \r or \n; no empty last line
RECURSIVE splitlines(_)
splitlines(s) ==
    LET stops == {i \in 1..Len(s) : s[i] \in {"\r", "\n"}}
        e == CHOOSE i \in stops : \A j \in stops : i <= j
        next == IF s[e] = "\r" /\ e < Len(s) /\ s[e + 1] = "\n" THEN e + 2 ELSE e + 1
    IN IF s = <<>> THEN <<>>
       ELSE IF stops = {} THEN <<s>>
       ELSE <<SubSeq(s, 1, e - 1)>> \o splitlines(SubSeq(s, next, Len(s)))

\* int(s) for the decimal numerals of the model's alphabet; anything else
\* raises ValueError
RECURSIVE digitsValue(_)
digitsValue(s) ==
    IF s = <<>> THEN 0
    ELSE 10 * digitsValue(SubSeq(s, 1, Len(s) - 1))
         + (CHOOSE k \in 0..9 : Digits[k + 1] = s[Len(s)])
IsDigits(s) == s # <<>> /\ \A i \in 1..Len(s) : \E k \in 1..10 : Digits[k] = s[i]
int(s) ==
    LET t == strip(s)
        signed == t # <<>> /\ Head(t) \in {"+", "-"}
        d == IF signed THEN Tail(t) ELSE t
    IN IF ~IsDigits(d) THEN Raise("ValueError")
       ELSE IF signed /\ Head(t) = "-" THEN Ok(0 - digitsValue(d))
       ELSE Ok(digitsValue(d))

\* str(n) for n >= 0
RECURSIVE str(_)
str(n) == IF n < 10 THEN <<Digits[n + 1]>> ELSE str(n \div 10) \o <<Digits[(n % 10) + 1]>>

\* A byte that is not valid UTF-8 on its own
BadByte == "\\xff"

\* bytes.decode(): UTF-8; the alphabet is ASCII plus BadByte
decode(b) ==
    IF \E i \in 1..Len(b) : b[i] = BadByte THEN Raise("UnicodeDecodeError") ELSE Ok(b)

\* A character outside ASCII and the two bytes of its UTF-8 encoding
EAcute == "\\u00e9"
EAcuteBytes == <<"\\xc3", "\\xa9">>

\* str.encode("utf-8")
RECURSIVE encode(_)
encode(s) ==
    IF s = <<>> THEN <<>>
    ELSE (IF Head(s) = EAcute THEN EAcuteBytes ELSE <<Head(s)>>) \o encode(Tail(s))

(***************************************************************************)
(* dict helpers                                                            *)
(***************************************************************************)
\* k in d
DictHas(d, k) == \E i \in 1..Len(d) : d[i][1] = k

\* d[k]
DictGet(d, k) == d[CHOOSE i \in 1..Len(d) : d[i][1] = k][2]

\* d[k] = v
DictSet(d, k, v) ==
    IF DictHas(d, k)
    THEN [i \in 1..Len(d) |-> IF d[i][1] = k THEN <<k, v>> ELSE d[i]]
    ELSE Append(d, <<k, v>>)

\* d.setdefault(k, v)
DictSetDefault(d, k, v) == IF DictHas(d, k) THEN d ELSE Append(d, <<k, v>>)

DictKeys(d) == {d[i][1] : i \in 1..Len(d)}

(***************************************************************************)
(* Python values                                                           *)
(***************************************************************************)
None == [t |-> "None"]
StrV(s) == [t |-> "str", s |-> s]
IntV(n) == [t |-> "int", n |-> n]
BoolV(b) == [t |-> "bool", b |-> b]
DictV(d) == [t |-> "dict", d |-> d]
ListV(l) == [t |-> "list", l |-> l]
BytesV(y) == [t |-> "bytes", y |-> y]
\* a set: a value json.dumps cannot serialize
SetV(l) == [t |-> "set", m |-> l]
\* a reference to the Request of the connection
RequestObj(r) == [t |-> "Request", r |-> r]

\* bool(x): Python truthiness
truthy(x) ==
    CASE x.t = "None" -> FALSE
      [] x.t = "str" -> x.s # <<>>
      [] x.t = "int" -> x.n # 0
      [] x.t = "bool" -> x.b
      [] x.t = "dict" -> x.d # <<>>
      [] x.t = "list" -> x.l # <<>>
      [] x.t = "bytes" -> x.y # <<>>
      [] x.t = "set" -> x.m # <<>>
      [] OTHER -> TRUE

(***************************************************************************)
(* json.loads / json.dumps over the model's alphabet: objects, arrays,     *)
(* strings without escapes, integers, true, false, null                    *)
(***************************************************************************)
\* index of the first non-whitespace character at or after i
RECURSIVE skipws(_, _)
skipws(s, i) == IF i <= Len(s) /\ IsSpace(s[i]) THEN skipws(s, i + 1) ELSE i

\* the end (exclusive) of the run of digits starting at i
RECURSIVE digitsEnd(_, _)
digitsEnd(s, i) ==
    IF i <= Len(s) /\ (\E k \in 1..10 : Digits[k] = s[i]) THEN digitsEnd(s, i + 1) ELSE i

Parsed(v, i) == [ok |-> TRUE, v |-> v, i |-> i]
NoParse == [ok |-> FALSE]
LitTrue == <<"t","r","u","e">>
LitFalse == <<"f","a","l","s","e">>
LitNull == <<"n","u","l","l">>
at(s, i, lit) == i + Len(lit) - 1 <= Len(s) /\ SubSeq(s, i, i + Len(lit) - 1) = lit

\* a JSON string starting at the quote at i
parse_string(s, i) ==
    LET closes == {j \in (i + 1)..Len(s) : s[j] = "\""}
        j == CHOOSE k \in closes : \A m \in closes : k <= m
    IN IF i > Len(s) \/ s[i] # "\"" \/ closes = {} THEN NoParse
       ELSE IF \E k \in (i + 1)..(j - 1) : s[k] \in {"\\", "\r", "\n", "\t"} THEN NoParse
       ELSE Parsed(StrV(SubSeq(s, i + 1, j - 1)), j + 1)

\* a JSON number starting at i: -?(0|[1-9][0-9]*)
parse_number(s, i) ==
    LET neg == i <= Len(s) /\ s[i] = "-"
        b == IF neg THEN i + 1 ELSE i
        e == IF b <= Len(s) /\ s[b] = "0" THEN b + 1 ELSE digitsEnd(s, b)
        n == digitsValue(SubSeq(s, b, e - 1))
    IN IF e = b THEN NoParse ELSE Parsed(IntV(IF neg THEN 0 - n ELSE n), e)

RECURSIVE parse_value(_, _), parse_members(_, _, _), parse_elements(_, _, _)
\* the JSON value starting at i (leading whitespace skipped)
parse_value(s, i0) ==
    LET i == skipws(s, i0)
    IN IF i > Len(s) THEN NoParse
       ELSE IF s[i] = "{" THEN
            (IF skipws(s, i + 1) <= Len(s) /\ s[skipws(s, i + 1)] = "}"
             THEN Parsed(DictV(<<>>), skipws(s, i + 1) + 1)
             ELSE parse_members(s, i + 1, <<>>))
       ELSE IF s[i] = "[" THEN
            (IF skipws(s, i + 1) <= Len(s) /\ s[skipws(s, i + 1)] = "]"
             THEN Parsed(ListV(<<>>), skipws(s, i + 1) + 1)
             ELSE parse_elements(s, i + 1, <<>>))
       ELSE IF s[i] = "\"" THEN parse_string(s, i)
       ELSE IF at(s, i, LitTrue) THEN Parsed(BoolV(TRUE), i + 4)
       ELSE IF at(s, i, LitFalse) THEN Parsed(BoolV(FALSE), i + 5)
       ELSE IF at(s, i, LitNull) THEN Parsed(None, i + 4)
       ELSE parse_number(s, i)

\* after a member's value, at e: "}" ends the object, "," continues it
members_next(s, e, acc) ==
    IF e > Len(s) THEN NoParse
    ELSE IF s[e] = "}" THEN Parsed(DictV(acc), e + 1)
    ELSE IF s[e] = "," THEN parse_members(s, e + 1, acc)
    ELSE NoParse

\* the member of key k with the parsed value v; a repeated key keeps its
\* last value
member_value(s, k, v, acc) ==
    IF ~v.ok THEN NoParse ELSE members_next(s, skipws(s, v.i), DictSet(acc, k, v.v))

\* the member whose parsed key is k: a ":" and a value follow
member(s, k, acc) ==
    IF ~k.ok \/ skipws(s, k.i) > Len(s) \/ s[skipws(s, k.i)] # ":" THEN NoParse
    ELSE member_value(s, k.v.s, parse_value(s, skipws(s, k.i) + 1), acc)

\* the members "key": value, ... } of an object, the first starting at i0
parse_members(s, i0, acc) == member(s, parse_string(s, skipws(s, i0)), acc)

\* after an element, at e: "]" ends the array, "," continues it
elements_next(s, e, acc) ==
    IF e > Len(s) THEN NoParse
    ELSE IF s[e] = "]" THEN Parsed(ListV(acc), e + 1)
    ELSE IF s[e] = "," THEN parse_elements(s, e + 1, acc)
    ELSE NoParse

\* the parsed element v
element(s, v, acc) ==
    IF ~v.ok THEN NoParse ELSE elements_next(s, skipws(s, v.i), Append(acc, v.v))

\* the elements value, ... ] of an array, the first starting at i0
parse_elements(s, i0, acc) == element(s, parse_value(s, i0), acc)

\* the parsed value p is the whole text, else JSONDecodeError
whole(text, p) ==
    IF p.ok /\ skipws(text, p.i) > Len(text) THEN Ok(p.v) ELSE Raise("JSONDecodeError")

\* json.loads(text): the whole text is one value, else JSONDecodeError
json_loads(text) == whole(text, parse_value(text, 1))

\* a string in quotes, quote and backslash escaped
RECURSIVE escape(_)
escape(s) ==
    IF s = <<>> THEN <<>>
    ELSE (IF Head(s) \in {"\"", "\\"} THEN <<"\\", Head(s)>> ELSE <<Head(s)>>) \o escape(Tail(s))

\* str(n) for any integer
str_int(n) == IF n < 0 THEN <<"-">> \o str(0 - n) ELSE str(n)

RECURSIVE dumps(_), dumps_items(_, _), dumps_list(_, _)
\* json.dumps(x): [ok, v] with the text, or TypeError for a value that is
\* not JSON serializable
dumps(x) ==
    CASE x.t = "None" -> Ok(LitNull)
      [] x.t = "bool" -> Ok(IF x.b THEN LitTrue ELSE LitFalse)
      [] x.t = "int" -> Ok(str_int(x.n))
      [] x.t = "str" -> Ok(<<"\"">> \o escape(x.s) \o <<"\"">>)
      [] x.t = "dict" -> dumps_items(x.d, <<"{">>)
      [] x.t = "list" -> dumps_list(x.l, <<"[">>)
      [] OTHER -> Raise("TypeError")
dumps_items(d, acc) ==
    IF d = <<>> THEN Ok(acc \o <<"}">>)
    ELSE LET v == dumps(Head(d)[2])
             sep == IF Len(acc) > 1 THEN <<",", " ">> ELSE <<>>
         IN IF ~v.ok THEN v
            ELSE dumps_items(Tail(d),
                     acc \o sep \o <<"\"">> \o escape(Head(d)[1]) \o <<"\"", ":", " ">> \o v.v)
dumps_list(l, acc) ==
    IF l = <<>> THEN Ok(acc \o <<"]">>)
    ELSE LET v == dumps(Head(l))
             sep == IF Len(acc) > 1 THEN <<",", " ">> ELSE <<>>
         IN IF ~v.ok THEN v ELSE dumps_list(Tail(l), acc \o sep \o v.v)

(***************************************************************************)
(* Request                                                                 *)
(***************************************************************************)
\* The Request dataclass
Request(method, path, headers, query_params, body_text) ==
    [method |-> method, path |-> path, headers |-> headers,
     query_params |-> query_params, body |-> body_text]

\* try: return ... except json.JSONDecodeError: return None
except_none(p) == IF p.ok THEN p.v ELSE None

\* Request.json(): the parsed body, None when it does not parse
Request_json(r) == except_none(json_loads(r.body))

\* urllib.parse.urlparse for origin-form targets: the fragment is cut at the
\* first "#", then the query at the first "?"
\* the path and query of a target cut at its first "?"
ParseResult(parts) == [path |-> parts[1], query |-> IF Len(parts) = 2 THEN parts[2] ELSE <<>>]
urlparse(url) == ParseResult(split1(split1(url, <<"#">>)[1], <<"?">>))

\* urllib.parse.unquote_plus on text without "%": "+" becomes a space
unquote_plus(s) == [i \in 1..Len(s) |-> IF s[i] = "+" THEN " " ELSE s[i]]

\* {k: v[0] for k, v in parse_qs(query).items()}: the pairs are cut at "&", a
\* pair without "=" or with an empty value is dropped, the first value of a
\* key is kept
RECURSIVE FirstValues(_, _)
FirstValues(pairs, acc) ==
    IF pairs = <<>> THEN acc
    ELSE LET nv == split1(Head(pairs), <<"=">>)
             keep == Len(nv) = 2 /\ nv[2] # <<>>
         IN FirstValues(Tail(pairs),
                IF keep
                THEN DictSetDefault(acc, unquote_plus(nv[1]), unquote_plus(nv[2]))
                ELSE acc)
parse_qs(query) == FirstValues(split(query, <<"&">>), <<>>)

\* from_raw, step 3: a line holding ": " is cut at its first ":", key and
\* value stripped; a later line replaces an earlier one of the same key
RECURSIVE ParseHeaders(_, _)
ParseHeaders(lines, acc) ==
    IF lines = <<>> THEN acc
    ELSE LET kv == split1(Head(lines), <<":">>)
         IN ParseHeaders(Tail(lines),
                IF contains(Head(lines), <<":", " ">>)
                THEN DictSet(acc, strip(kv[1]), strip(kv[2]))
                ELSE acc)

\* Mutant of from_request_line: a request line of fewer than three tokens is
\* padded instead of refused
from_request_line_lenient(first, header_lines, body_text) ==
    LET padded == first \o << <<"G","E","T">>, <<"/">>, <<"H","T","T","P","/","1",".","1">> >>
    IN Ok(Request(padded[1], urlparse(padded[2]).path,
                  ParseHeaders(header_lines, <<>>),
                  parse_qs(urlparse(padded[2]).query), body_text))

\* Request.from_raw, lines 48-69: first is the request line cut at
\* whitespace, header_lines the lines after it
from_request_line(first, header_lines, body_text) ==
    IF Len(first) # 3 THEN Raise("ValueError")
    ELSE Ok(Request(first[1], urlparse(first[2]).path,
                    ParseHeaders(header_lines, <<>>),
                    parse_qs(urlparse(first[2]).query), body_text))

\* Request.from_raw, lines 44-48
from_lines(header_lines, body_text) ==
    IF header_lines = <<>> THEN Raise("ValueError")
    ELSE from_request_line(words(header_lines[1]), Tail(header_lines), body_text)

\* Request.from_raw
from_raw(header_text, body_text) == from_lines(splitlines(header_text), body_text)

\* from_stream, lines 98-102: the first line that starts with
\* "content-length:" (lower-cased) gives the length; 0 when there is none
ContentLengthPrefix == <<"c","o","n","t","e","n","t","-","l","e","n","g","t","h",":">>
\* the loop of lines 98-102 over the lines of the header block
content_length(lines) ==
    LET hits == {i \in 1..Len(lines) : startswith(lower(lines[i]), ContentLengthPrefix)}
    IN IF hits = {} THEN Ok(0)
       ELSE int(split(lines[CHOOSE i \in hits : \A j \in hits : i <= j], <<":">>)[2])
content_length_of(text) == content_length(splitlines(text))

\* The header/body separator
Separator == <<"\r", "\n", "\r", "\n">>

\* Mutant of accumulate: the buffer keeps only the last chunk
accumulate_overwrite(data, chunk) == chunk

\* from_stream, line 93
accumulate(data, chunk) == data \o chunk

\* from_stream, lines 95-104: the header block as text, the body fragment
\* and the number of body bytes still to read; ValueError when the buffer
\* holds no separator or the Content-Length is no number
\* Mutant of frame_body: the bytes already captured are not taken off the
\* number still to read
frame_body_whole(text, fragment, length) ==
    IF ~length.ok THEN length
    ELSE [ok |-> TRUE, request_text |-> text, body |-> fragment, remaining |-> length.v]

\* from_stream, lines 103-104: length is what int() made of Content-Length
frame_body(text, fragment, length) ==
    IF ~length.ok THEN length
    ELSE [ok |-> TRUE, request_text |-> text, body |-> fragment,
          remaining |-> length.v - Len(fragment)]

\* from_stream, lines 96-102: text is what decode() made of the header block
frame_header(text, fragment) ==
    IF ~text.ok THEN text ELSE frame_body(text.v, fragment, content_length_of(text.v))

frame(data) ==
    LET parts == split1(data, Separator)
    IN IF Len(parts) # 2 THEN Raise("ValueError")
       ELSE frame_header(decode(parts[1]), parts[2])

\* from_stream, lines 107-109
finish(text, body_bytes) ==
    IF ~decode(body_bytes).ok THEN decode(body_bytes)
    ELSE from_raw(text, decode(body_bytes).v)

\* from_stream past line 95 when every byte of the peer is in the buffer: the
\* readexactly of a longer body then meets the end of the stream
finish_one_chunk(f) ==
    IF ~f.ok THEN f
    ELSE IF f.remaining > 0 THEN Raise("IncompleteReadError")
    ELSE finish(f.request_text, f.body)

\* from_stream when the first read returns every byte of the peer
from_stream_one_chunk(data) == finish_one_chunk(frame(data))

(***************************************************************************)
(* Response                                                                *)
(***************************************************************************)
\* The Response dataclass
Response(body_value, status_code, headers, content_type) ==
    [body |-> body_value, status_code |-> status_code, headers |-> headers,
     content_type |-> content_type]
ResponseObj(r) == [t |-> "Response", resp |-> r]

TextPlain == <<"t","e","x","t","/","p","l","a","i","n">>
ApplicationJson == <<"a","p","p","l","i","c","a","t","i","o","n","/","j","s","o","n">>
ContentType == <<"C","o","n","t","e","n","t","-","T","y","p","e">>
ContentLength == <<"C","o","n","t","e","n","t","-","L","e","n","g","t","h">>

\* Response(body=result): the defaults of the dataclass
DefaultResponse(body_value) == Response(body_value, 200, <<>>, TextPlain)

\* str(x) for a body that is no dict, list, str or bytes
RECURSIVE set_repr(_)
set_repr(l) ==
    IF l = <<>> THEN <<>>
    ELSE <<"'">> \o Head(l) \o <<"'">>
         \o (IF Len(l) > 1 THEN <<",", " ">> ELSE <<>>) \o set_repr(Tail(l))
py_str(x) ==
    CASE x.t = "None" -> <<"N","o","n","e">>
      [] x.t = "bool" -> IF x.b THEN <<"T","r","u","e">> ELSE <<"F","a","l","s","e">>
      [] x.t = "int" -> str_int(x.n)
      [] x.t = "set" -> IF x.m = <<>> THEN <<"s","e","t","(",")">>
                        ELSE <<"{">> \o set_repr(x.m) \o <<"}">>
      [] OTHER -> <<"<","o","b","j","e","c","t",">">>

\* to_bytes, lines 132-143: the encoded body, or the TypeError of json.dumps
body_bytes_of(r) ==
    CASE r.body.t \in {"dict", "list"} -> dumps(r.body)
      [] r.body.t = "str" -> Ok(encode(r.body.s))
      [] r.body.t = "bytes" -> Ok(r.body.y)
      [] OTHER -> Ok(encode(py_str(r.body)))

\* Mutant of headers_of: the default Content-Type replaces the one the handler set
headers_of_override(r) ==
    LET ct == IF r.body.t \in {"dict", "list"} THEN ApplicationJson ELSE r.content_type
    IN DictSet(DictSet(r.headers, ContentType, ct),
               ContentLength, str(Len(body_bytes_of(r).v)))

\* to_bytes, lines 132-145: self.headers once the defaults are set
headers_of(r) ==
    LET ct == IF r.body.t \in {"dict", "list"} THEN ApplicationJson ELSE r.content_type
    IN DictSet(DictSetDefault(r.headers, ContentType, ct),
               ContentLength, str(Len(body_bytes_of(r).v)))

\* to_bytes, lines 147-148
status_text_of(status_code) ==
    CASE status_code = 200 -> <<"2","0","0"," ","O","K">>
      [] status_code = 404 -> <<"4","0","4"," ","N","o","t"," ","F","o","u","n","d">>
      [] status_code = 500 ->
            <<"5","0","0"," ","I","n","t","e","r","n","a","l"," ",
              "S","e","r","v","e","r"," ","E","r","r","o","r">>
      [] OTHER -> <<"U","n","k","n","o","w","n"," ","S","t","a","t","u","s">>

\* to_bytes, line 150
RECURSIVE header_lines_of(_)
header_lines_of(h) ==
    IF h = <<>> THEN <<>>
    ELSE Head(h)[1] \o <<":", " ">> \o Head(h)[2] \o <<"\r", "\n">> \o header_lines_of(Tail(h))

\* Response.to_bytes
to_bytes(r) ==
    LET b == body_bytes_of(r)
    IN IF ~b.ok THEN b
       ELSE Ok(<<"H","T","T","P","/","1",".","1"," ">> \o status_text_of(r.status_code)
               \o <<"\r", "\n">> \o header_lines_of(headers_of(r)) \o <<"\r", "\n">> \o b.v)

(***************************************************************************)
(* Route table                                                             *)
(***************************************************************************)
\* re.compile of the pattern route() builds (lines 197-199): each <name> of
\* the template becomes the named group (?P<name>[^/]+); a "." stays the
\* regular expression's any-character; every other character of the model's
\* alphabet matches itself
RECURSIVE compile(_)
compile(path) ==
    LET closes == {j \in 3..Len(path) : path[j] = ">"}
        j == CHOOSE k \in closes : \A m \in closes : k <= m
    IN IF path = <<>> THEN <<>>
       ELSE IF Head(path) = "<" /\ closes # {} /\ path[2] # ">"
            THEN <<[k |-> "group", name |-> SubSeq(path, 2, j - 1)]>>
                 \o compile(SubSeq(path, j + 1, Len(path)))
       ELSE IF Head(path) = "." THEN <<[k |-> "any"]>> \o compile(Tail(path))
       ELSE <<[k |-> "lit", c |-> Head(path)]>> \o compile(Tail(path))

\* the length of the longest prefix of p without "/"
RECURSIVE segment_run(_)
segment_run(p) == IF p = <<>> \/ Head(p) = "/" THEN 0 ELSE 1 + segment_run(Tail(p))

\* regex.match(path) for ^...$: the groupdict of the first match the
\* backtracking search finds (a group takes the longest run first), or no match
RECURSIVE regex_match(_, _, _), group_match(_, _, _, _)
regex_match(re, p, groups) ==
    IF re = <<>>
    THEN (IF p = <<>> \/ p = <<"\n">> THEN [ok |-> TRUE, groups |-> groups] ELSE [ok |-> FALSE])
    ELSE IF Head(re).k = "lit"
    THEN (IF p # <<>> /\ Head(p) = Head(re).c
          THEN regex_match(Tail(re), Tail(p), groups) ELSE [ok |-> FALSE])
    ELSE IF Head(re).k = "any"
    THEN (IF p # <<>> /\ Head(p) # "\n"
          THEN regex_match(Tail(re), Tail(p), groups) ELSE [ok |-> FALSE])
    ELSE group_match(re, p, groups, segment_run(p))
group_match(re, p, groups, n) ==
    IF n = 0 THEN [ok |-> FALSE]
    ELSE LET m == regex_match(Tail(re), SubSeq(p, n + 1, Len(p)),
                              DictSet(groups, Head(re).name, SubSeq(p, 1, n)))
         IN IF m.ok THEN m ELSE group_match(re, p, groups, n - 1)

\* Looplite.route(path, method)(func): one entry per method, appended
route(table, path, method, func) ==
    table \o [i \in 1..Len(method) |->
                 [m |-> upper(method[i]), regex |-> compile(path), handler |-> func]]

\* Mutant of get_handler_and_path_params: the method is not compared
get_handler_and_path_params_any_method(table, method, path) ==
    LET hits == {i \in 1..Len(table) : regex_match(table[i].regex, path, <<>>).ok}
        first == CHOOSE i \in hits : \A j \in hits : i <= j
    IN IF hits = {} THEN [handler |-> None, path_params |-> None]
       ELSE [handler |-> table[first].handler,
             path_params |-> DictV(regex_match(table[first].regex, path, <<>>).groups)]

\* Mutant of get_handler_and_path_params: the last matching entry wins
get_handler_and_path_params_last(table, method, path) ==
    LET hits == {i \in 1..Len(table) :
                    table[i].m = upper(method) /\ regex_match(table[i].regex, path, <<>>).ok}
        last == CHOOSE i \in hits : \A j \in hits : i >= j
    IN IF hits = {} THEN [handler |-> None, path_params |-> None]
       ELSE [handler |-> table[last].handler,
             path_params |-> DictV(regex_match(table[last].regex, path, <<>>).groups)]

\* Looplite.get_handler_and_path_params: [handler, path_params] of the first
\* entry whose method and regex match, (None, None) when there is none
get_handler_and_path_params(table, method, path) ==
    LET hits == {i \in 1..Len(table) :
                    table[i].m = upper(method) /\ regex_match(table[i].regex, path, <<>>).ok}
        first == CHOOSE i \in hits : \A j \in hits : i <= j
    IN IF hits = {} THEN [handler |-> None, path_params |-> None]
       ELSE [handler |-> table[first].handler,
             path_params |-> DictV(regex_match(table[first].regex, path, <<>>).groups)]

(***************************************************************************)
(* Argument binding                                                        *)
(***************************************************************************)
\* The reserved parameter name
REQUEST == <<"r","e","q","u","e","s","t">>

\* name in seq
InSeq(x, l) == \E i \in 1..Len(l) : l[i] = x

\* _get_args, lines 173-179: the Request under the reserved name, then
\* every path variable that is a declared parameter
RECURSIVE bind_path(_, _, _)
bind_path(parameters, params, bound) ==
    IF params = <<>> THEN bound
    ELSE bind_path(parameters, Tail(params),
             IF InSeq(Head(params)[1], parameters)
             THEN DictSet(bound, Head(params)[1], StrV(Head(params)[2]))
             ELSE bound)

\* Mutant of bind_query: a query parameter replaces a value already bound
RECURSIVE bind_query_override(_, _, _)
bind_query_override(names, query_params, bound) ==
    IF names = <<>> THEN bound
    ELSE bind_query_override(Tail(names), query_params,
             IF DictHas(query_params, Head(names))
             THEN DictSet(bound, Head(names), StrV(DictGet(query_params, Head(names))))
             ELSE bound)

\* _get_args, lines 182-184
RECURSIVE bind_query(_, _, _)
bind_query(names, query_params, bound) ==
    IF names = <<>> THEN bound
    ELSE bind_query(Tail(names), query_params,
             IF DictHas(query_params, Head(names)) /\ ~DictHas(bound, Head(names))
             THEN DictSet(bound, Head(names), StrV(DictGet(query_params, Head(names))))
             ELSE bound)

\* name in body_json: [ok, v] with the answer, or the TypeError of a value
\* that is no container
py_in(name, x) ==
    CASE x.t = "dict" -> Ok(DictHas(x.d, name))
      [] x.t = "list" -> Ok(\E i \in 1..Len(x.l) : x.l[i].t = "str" /\ x.l[i].s = name)
      [] x.t = "str" -> Ok(contains(x.s, name))
      [] OTHER -> Raise("TypeError")

\* _get_args, lines 188-190: body_json[name] is a TypeError unless body_json
\* is a dict
RECURSIVE bind_body(_, _, _)
bind_body(names, body_json, bound) ==
    IF names = <<>> THEN Ok(DictV(bound))
    ELSE LET has == py_in(Head(names), body_json)
         IN IF ~has.ok THEN has
            ELSE IF has.v /\ ~DictHas(bound, Head(names))
            THEN (IF body_json.t = "dict"
                  THEN bind_body(Tail(names), body_json,
                           DictSet(bound, Head(names), DictGet(body_json.d, Head(names))))
                  ELSE Raise("TypeError"))
            ELSE bind_body(Tail(names), body_json, bound)

\* _get_args, line 187: request.json() or {}
or_empty(parsed) == IF truthy(parsed) THEN parsed ELSE DictV(<<>>)

\* Looplite._get_args(handler, request, params)
_get_args(h, req, params) ==
    LET injected == IF InSeq(REQUEST, h.parameters)
                    THEN <<<<REQUEST, RequestObj(req)>>>> ELSE <<>>
        from_path == bind_path(h.parameters, params.d, injected)
        from_query == bind_query(h.parameters, req.query_params, from_path)
    IN bind_body(h.parameters, or_empty(Request_json(req)), from_query)

\* handler(**kwargs): every declared parameter is required
missing_arguments(h, kwargs) ==
    \E i \in 1..Len(h.parameters) : ~DictHas(kwargs.d, h.parameters[i])

(***************************************************************************)
(* The applications, peers and handlers the model runs                     *)
(***************************************************************************)
\* Bounds of the model
MaxRoutes == 2
MaxChunks == 3

\* reader.read(1024)
ReadSize == 1024

GET == <<"G","E","T">>
POST == <<"P","O","S","T">>
DELETE == <<"D","E","L","E","T","E">>
CRLF == <<"\r", "\n">>
HTTP11 == <<"H","T","T","P","/","1",".","1">>
X == <<"x">>
Y == <<"y">>

\* Handlers: a name and the parameter names of the signature
get_item == [name |-> "get_item", parameters |-> <<X, Y>>]
whoami == [name |-> "whoami", parameters |-> <<REQUEST>>]
ping == [name |-> "ping", parameters |-> <<>>]

\* The route() calls an application may make at startup
Registrations ==
    << [path |-> <<"/","a","/","<","x",">">>, method |-> <<GET>>, func |-> get_item],
       [path |-> <<"/","a","/","b">>, method |-> <<GET>>, func |-> whoami],
       [path |-> <<"/","a","/","<","r","e","q","u","e","s","t",">">>,
        method |-> <<GET, POST>>, func |-> whoami],
       [path |-> <<"/","a",".","b">>, method |-> <<GET>>, func |-> ping] >>

RequestLine(method, target) == method \o <<" ">> \o target \o <<" ">> \o HTTP11 \o CRLF
JsonYS == <<"{","\"","y","\"",":"," ","\"","s","\"","}">>
JsonYX == <<"{","\"","y","\"",":"," ","\"","s","\"",","," ","\"","x","\"",":"," ","1","}">>
JsonRequest == <<"{","\"","r","e","q","u","e","s","t","\"",":"," ","\"","w","\"","}">>
TargetAB == <<"/","a","/","b">>

\* The byte sequences a peer may send before it closes its side
Wires ==
    { RequestLine(GET, TargetAB) \o CRLF,
      RequestLine(GET, <<"/","a","/","b","?","x","=","q","&","y","=","r">>)
          \o ContentLength \o <<":", " ", "1", "8">> \o CRLF \o CRLF \o JsonYX,
      RequestLine(GET, TargetAB)
          \o ContentLength \o <<":", " ", "1", "0">> \o CRLF \o CRLF \o JsonYS,
      RequestLine(GET, TargetAB) \o CRLF \o JsonYS,
      RequestLine(<<"g","e","t">>, <<"/","a","/","b","?","r","e","q","u","e","s","t","=","q">>)
          \o ContentLength \o <<":", " ", "1", "6">> \o CRLF \o CRLF \o JsonRequest,
      RequestLine(POST, <<"/","a","/","z">>) \o CRLF,
      RequestLine(DELETE, <<"/","m","i","s","s","i","n","g">>) \o CRLF,
      RequestLine(GET, TargetAB),
      GET \o <<" ">> \o TargetAB \o CRLF \o CRLF,
      RequestLine(GET, TargetAB)
          \o lower(ContentLength) \o <<":", " ", "5">> \o CRLF \o CRLF \o <<"a", "b">>,
      RequestLine(GET, TargetAB)
          \o ContentLength \o <<":", " ", "1">> \o CRLF \o CRLF \o <<BadByte>>,
      RequestLine(GET, TargetAB)
          \o ContentLength \o <<":", " ", "1">> \o CRLF \o CRLF \o <<"5">>,
      RequestLine(GET, TargetAB)
          \o ContentLength \o <<":", " ", "5">> \o CRLF \o CRLF \o <<"[","\"","x","\"","]">>,
      RequestLine(GET, <<"/","a","/","b","?","y","=","r">>)
          \o ContentLength \o <<":", " ", "4">> \o CRLF \o CRLF \o <<"n","o","p","e">> }

\* What a handler may do once called: return a value or raise an exception
Boom == <<"b","o","o","m">>
Secret == <<"s","e","c","r","e","t">>
TextHtml == <<"t","e","x","t","/","h","t","m","l">>
TextCss == <<"t","e","x","t","/","c","s","s">>
Outcomes ==
    << [kind |-> "return", value |-> StrV(<<"h","i">>)],
       [kind |-> "return", value |-> None],
       [kind |-> "return", value |-> DictV(<< <<X, StrV(<<"1">>)>> >>)],
       [kind |-> "return", value |-> DictV(<< <<X, SetV(<< <<"1">> >>)>> >>)],
       [kind |-> "return",
        value |-> ResponseObj(Response(StrV(<<"f">>), 200,
                                       << <<<<"X","-","I","d">>, <<"7">>>> >>, TextPlain))],
       [kind |-> "return",
        value |-> ResponseObj(Response(StrV(<<"h", EAcute>>), 201,
                                       << <<lower(ContentLength), <<"5">>>> >>, TextHtml))],
       [kind |-> "return",
        value |-> ResponseObj(Response(BytesV(<<"a","b">>), 404,
                                       << <<ContentType, TextCss>>,
                                          <<ContentLength, <<"9","9">>>> >>, TextPlain))],
       [kind |-> "return",
        value |-> ResponseObj(Response(ListV(<<IntV(1)>>), 200, <<>>, TextHtml))],
       [kind |-> "return",
        value |-> ResponseObj(Response(DictV(<< <<X, StrV(<<"1">>)>> >>), 500,
                                       << <<ContentType, TextHtml>> >>, TextPlain))],
       [kind |-> "raise", text |-> Boom],
       [kind |-> "raise", text |-> Secret] >>

(***************************************************************************)
(* Looplite.handle, one connection                                         *)
(***************************************************************************)
ErrorKey == <<"e","r","r","o","r">>
NotFound == <<"N","o","t"," ","F","o","u","n","d">>
InternalServerError ==
    <<"I","n","t","e","r","n","a","l"," ","S","e","r","v","e","r"," ","E","r","r","o","r">>

\* An exception: its class and its text
Exception(cls, text) == [t |-> "Exception", cls |-> cls, text |-> text]

\* Mutant of error_response: the body carries the text of the exception
error_response_leak(e) ==
    Response(DictV(<< <<ErrorKey, StrV(e.text)>> >>), 500, <<>>, TextPlain)

\* handle, lines 239-244: the response for the exception e caught by the try
error_response(e) ==
    Response(DictV(<< <<ErrorKey, StrV(InternalServerError)>> >>), 500, <<>>, TextPlain)

\* handle, lines 246-249
Response404 == Response(DictV(<< <<ErrorKey, StrV(NotFound)>> >>), 404, <<>>, TextPlain)

Init ==
    /\ routes = <<>>
    /\ pc = "startup"
    /\ stream = <<>>
    /\ header_data = <<>>
    /\ request_text = <<>>
    /\ body = <<>>
    /\ remaining = 0
    /\ request = None
    /\ handler = None
    /\ path_params = None
    /\ args = None
    /\ result = None
    /\ raised = None
    /\ response = None
    /\ written = <<>>
    /\ closed = 0
    /\ exc = "none"
    /\ wire = <<>>
    /\ nchunks = 0
    /\ ninvoked = 0
    /\ tasks = <<>>

\* An exception leaves handle: nothing after the raising statement runs
Propagate(e) == pc' = "raised" /\ exc' = e

\* Startup: the application registers a route
Route ==
    /\ pc = "startup"
    /\ \E i \in 1..Len(Registrations) :
          /\ Len(routes) + Len(Registrations[i].method) <= MaxRoutes
          /\ routes' = route(routes, Registrations[i].path, Registrations[i].method,
                             Registrations[i].func)
    /\ UNCHANGED <<tasks, pc, stream, header_data, request_text, body, remaining, request,
                   handler, path_params, args, result, raised, response, written, closed,
                   exc, wire, nchunks, ninvoked>>

\* asyncio.start_server calls handle for an accepted connection
Accept ==
    /\ pc = "startup"
    /\ \E w \in Wires : wire' = w /\ stream' = w
    /\ pc' = "read_header"
    /\ UNCHANGED <<tasks, routes, header_data, request_text, body, remaining, request, handler,
                   path_params, args, result, raised, response, written, closed, exc,
                   nchunks, ninvoked>>

\* from_stream, lines 90-93: one pass of the loop.  reader.read returns some
\* of the bytes that have arrived, at most ReadSize, or b"" at end of stream
ReadChunk ==
    /\ pc = "read_header"
    /\ IF stream = <<>>
       THEN /\ pc' = "split"
            /\ UNCHANGED <<stream, header_data, nchunks>>
       ELSE \E n \in 1..Min(ReadSize, Len(stream)) :
               /\ nchunks + 1 < MaxChunks \/ n = Min(ReadSize, Len(stream))
               /\ header_data' = accumulate(header_data, SubSeq(stream, 1, n))
               /\ stream' = SubSeq(stream, n + 1, Len(stream))
               /\ nchunks' = nchunks + 1
               /\ pc' = IF contains(header_data', Separator) THEN "split" ELSE "read_header"
    /\ UNCHANGED <<tasks, routes, request_text, body, remaining, request, handler, path_params,
                   args, result, raised, response, written, closed, exc, wire, ninvoked>>

\* from_stream, lines 95-104
\* the assignments of lines 95-104 for the outcome f of frame
Framing(f) ==
    IF ~f.ok
    THEN Propagate(f.e) /\ UNCHANGED <<request_text, body, remaining>>
    ELSE /\ body' = f.body
         /\ request_text' = f.request_text
         /\ remaining' = f.remaining
         /\ pc' = IF f.remaining > 0 THEN "read_body" ELSE "from_raw"
         /\ UNCHANGED exc
Split ==
    /\ pc = "split"
    /\ Framing(frame(header_data))
    /\ UNCHANGED <<tasks, routes, stream, header_data, request, handler, path_params, args,
                   result, raised, response, written, closed, wire, nchunks, ninvoked>>

\* from_stream, line 105: readexactly(remaining) returns when that many
\* bytes have arrived and raises IncompleteReadError at end of stream
ReadBody ==
    /\ pc = "read_body"
    /\ IF Len(stream) >= remaining
       THEN /\ body' = body \o SubSeq(stream, 1, remaining)
            /\ stream' = SubSeq(stream, remaining + 1, Len(stream))
            /\ pc' = "from_raw"
            /\ UNCHANGED exc
       ELSE /\ stream' = <<>>
            /\ Propagate("IncompleteReadError")
            /\ UNCHANGED body
    /\ UNCHANGED <<tasks, routes, header_data, request_text, remaining, request, handler,
                   path_params, args, result, raised, response, written, closed, wire,
                   nchunks, ninvoked>>

\* from_stream, lines 107-109
\* the return of line 109 for the outcome r of from_raw
Construct(r) ==
    IF ~r.ok THEN Propagate(r.e) /\ UNCHANGED request
    ELSE request' = r.v /\ pc' = "resolve" /\ UNCHANGED exc
FromRaw ==
    /\ pc = "from_raw"
    /\ Construct(finish(request_text, body))
    /\ UNCHANGED <<tasks, routes, stream, header_data, request_text, body, remaining, handler,
                   path_params, args, result, raised, response, written, closed, wire,
                   nchunks, ninvoked>>

\* handle, lines 229-232 and 245-249
\* Mutant of Dispatch: the entries scanned are taken off the route table
Dispatch_consume(found) ==
    /\ handler' = found.handler
    /\ path_params' = found.path_params
    /\ IF found.handler # None
       THEN pc' = "invoke" /\ UNCHANGED response
       ELSE pc' = "send" /\ response' = Response404
    /\ routes' = <<>>

\* the branch of line 232 on the pair found by resolution, which leaves
\* self.routes as it is
Dispatch(found) ==
    /\ handler' = found.handler
    /\ path_params' = found.path_params
    /\ IF found.handler # None
       THEN pc' = "invoke" /\ UNCHANGED response
       ELSE pc' = "send" /\ response' = Response404
    /\ UNCHANGED routes
Resolve ==
    /\ pc = "resolve"
    /\ Dispatch(get_handler_and_path_params(routes, request.method, request.path))
    /\ UNCHANGED <<tasks, stream, header_data, request_text, body, remaining, request,
                   args, result, raised, written, closed, exc, wire, nchunks, ninvoked>>

\* The text of an exception the interpreter raises by itself
InterpreterMessage == <<"T","y","p","e","E","r","r","o","r">>

\* handle, lines 233-244: bind the arguments, call and await the handler,
\* wrap what it returns; any exception becomes the 500 response
\* lines 236-244: the awaited handler call returns a value or raises
Await(outcome) ==
    IF outcome.kind = "raise"
    THEN /\ raised' = Exception("Exception", outcome.text)
         /\ response' = error_response(raised')
         /\ UNCHANGED result
    ELSE /\ result' = outcome.value
         /\ response' = IF outcome.value.t = "Response"
                        THEN outcome.value.resp
                        ELSE DefaultResponse(outcome.value)
         /\ UNCHANGED raised
\* line 236 for the outcome kwargs of _get_args
Call(kwargs) ==
    IF ~kwargs.ok
    THEN /\ raised' = Exception(kwargs.e, InterpreterMessage)
         /\ response' = error_response(raised')
         /\ UNCHANGED <<args, result, ninvoked>>
    ELSE IF missing_arguments(handler, kwargs.v)
    THEN /\ args' = kwargs.v
         /\ raised' = Exception("TypeError", InterpreterMessage)
         /\ response' = error_response(raised')
         /\ UNCHANGED <<result, ninvoked>>
    ELSE /\ args' = kwargs.v
         /\ ninvoked' = ninvoked + 1
         /\ \E o \in 1..Len(Outcomes) : Await(Outcomes[o])
Invoke ==
    /\ pc = "invoke"
    /\ Call(_get_args(handler, request, path_params))
    /\ pc' = "send"
    /\ UNCHANGED <<tasks, routes, stream, header_data, request_text, body, remaining, request,
                   handler, path_params, written, closed, exc, wire, nchunks>>

\* handle, line 252: to_bytes sets the default headers of the Response;
\* its exception leaves handle
\* writer.write for the outcome b of to_bytes
Write(b) ==
    IF b.ok
    THEN /\ written' = Append(written, b.v)
         /\ response' = [response EXCEPT !.headers = headers_of(response)]
         /\ pc' = "drain"
         /\ UNCHANGED exc
    ELSE Propagate(b.e) /\ UNCHANGED <<written, response>>
Send ==
    /\ pc = "send"
    /\ Write(to_bytes(response))
    /\ UNCHANGED <<tasks, routes, stream, header_data, request_text, body, remaining, request,
                   handler, path_params, args, result, raised, closed, wire, nchunks,
                   ninvoked>>

\* handle, line 253
Drain ==
    /\ pc = "drain"
    /\ pc' = "close"
    /\ UNCHANGED <<tasks, routes, stream, header_data, request_text, body, remaining, request,
                   handler, path_params, args, result, raised, response, written, closed,
                   exc, wire, nchunks, ninvoked>>

\* Mutant of Close: the connection is kept alive and handle reads again
Close_keepalive ==
    /\ pc = "close"
    /\ pc' = "read_header"
    /\ header_data' = <<>>
    /\ UNCHANGED <<tasks, routes, stream, request_text, body, remaining, request, handler,
                   path_params, args, result, raised, response, written, closed, exc,
                   wire, nchunks, ninvoked>>

\* handle, line 254
Close ==
    /\ pc = "close"
    /\ closed' = closed + 1
    /\ pc' = "done"
    /\ UNCHANGED <<tasks, routes, stream, header_data, request_text, body, remaining, request,
                   handler, path_params, args, result, raised, response, written, exc,
                   wire, nchunks, ninvoked>>

Next ==
    \/ Route
    \/ Accept
    \/ ReadChunk
    \/ Split
    \/ ReadBody
    \/ FromRaw
    \/ Resolve
    \/ Invoke
    \/ Send
    \/ Drain
    \/ Close

Spec == Init /\ [][Next]_vars

(***************************************************************************)
(* Properties                                                              *)
(***************************************************************************)
\* from_stream has returned a Request
Framed == request # None
\* from_stream has raised
FramingFailed == pc = "raised" /\ request = None
\* handle is past from_stream, one way or the other
FramingEnded == Framed \/ FramingFailed
\* handle has returned or raised
Ended == pc \in {"done", "raised"}
\* writer.write has been called
Wrote == pc \in {"drain", "close", "done"}

\* The bytes of the 404 response
NotFoundBytes ==
    <<"H","T","T","P","/","1",".","1"," ","4","0","4"," ","N","o","t",
    " ","F","o","u","n","d","\r","\n","C","o","n","t","e","n","t","-",
    "T","y","p","e",":"," ","a","p","p","l","i","c","a","t","i","o",
    "n","/","j","s","o","n","\r","\n","C","o","n","t","e","n","t","-",
    "L","e","n","g","t","h",":"," ","2","2","\r","\n","\r","\n","{","\"",
    "e","r","r","o","r","\"",":"," ","\"","N","o","t"," ","F","o","u",
    "n","d","\"","}">>
\* The bytes of the 500 response
InternalServerErrorBytes ==
    <<"H","T","T","P","/","1",".","1"," ","5","0","0"," ","I","n","t",
    "e","r","n","a","l"," ","S","e","r","v","e","r"," ","E","r","r",
    "o","r","\r","\n","C","o","n","t","e","n","t","-","T","y","p","e",
    ":"," ","a","p","p","l","i","c","a","t","i","o","n","/","j","s",
    "o","n","\r","\n","C","o","n","t","e","n","t","-","L","e","n","g",
    "t","h",":"," ","3","4","\r","\n","\r","\n","{","\"","e","r","r","o",
    "r","\"",":"," ","\"","I","n","t","e","r","n","a","l"," ","S","e",
    "r","v","e","r"," ","E","r","r","o","r","\"","}">>

\* C1: in a run of handle the response is written at most once, the
\* connection is closed at most once and only after the write, and once the
\* response is written no step reads the stream, calls a handler or writes.
C1_OneWriteThenClose ==
    /\ [](Len(written) <= 1 /\ closed <= 1 /\ (closed >= 1 => Len(written) = 1))
    /\ [][written # <<>> => ~(ReadChunk \/ ReadBody \/ Invoke \/ Send)]_vars
C1_Witness == pc = "done" /\ Len(written) = 1 /\ closed = 1 /\ ninvoked = 1

\* C2: once from_stream has returned a Request, a run of handle that has
\* ended has written exactly one response and closed the connection.
C2_FramedRunResponds == (Framed /\ Ended) => (Len(written) = 1 /\ closed = 1)

\* C3: a framed request that no route entry matches (method and whole path)
\* reaches no handler and is answered with status 404 and the body
\* {"error": "Not Found"}.
NoEntryMatches ==
    \A i \in 1..Len(routes) :
        ~(routes[i].m = upper(request.method)
          /\ regex_match(routes[i].regex, request.path, <<>>).ok)
C3_NotFound ==
    (Framed /\ pc # "resolve" /\ NoEntryMatches) =>
        /\ ninvoked = 0
        /\ pc \in {"send", "drain", "close", "done"}
        /\ response.status_code = 404
        /\ response.body = DictV(<< <<ErrorKey, StrV(NotFound)>> >>)
        /\ Wrote => written = <<NotFoundBytes>>
C3_Witness ==
    /\ pc = "done" /\ Framed /\ NoEntryMatches /\ Len(routes) = 2
    /\ written = <<NotFoundBytes>>

\* C4: when binding or invocation fails for a resolved handler, the response
\* has status 500 and the body {"error": "Internal Server Error"}, and the
\* bytes written are the same whatever the text of the exception: the text
\* is no part of them.
C4_InternalServerError ==
    (raised # None) =>
        /\ pc \in {"send", "drain", "close", "done"}
        /\ response.status_code = 500
        /\ response.body = DictV(<< <<ErrorKey, StrV(InternalServerError)>> >>)
        /\ Wrote => /\ written = <<InternalServerErrorBytes>>
                    /\ ~contains(written[1], raised.text)
C4_Witness ==
    /\ pc = "done" /\ raised # None /\ raised.text = Secret /\ ninvoked = 1
    /\ written = <<InternalServerErrorBytes>>

\* C5: when framing fails (no separator before the end of the stream, a
\* request line that is not three tokens, fewer body bytes than declared, or
\* any other exception of from_stream) nothing is written and no handler is
\* called.
TruncatedHeader == pc # "startup" /\ ~contains(wire, Separator)
MalformedRequestLine ==
    /\ contains(wire, Separator)
    /\ LET lines == splitlines(split1(wire, Separator)[1])
       IN lines = <<>> \/ Len(words(lines[1])) # 3
BodyMissing(f) == f.ok /\ f.remaining > 0
PrematureClose == contains(wire, Separator) /\ BodyMissing(frame(wire))
C5_FramingErrorWritesNothing ==
    (FramingFailed \/ TruncatedHeader \/ MalformedRequestLine \/ PrematureClose) =>
        /\ written = <<>>
        /\ ninvoked = 0
        /\ ~Framed
        /\ Ended => FramingFailed
C5_Witness ==
    /\ FramingFailed /\ MalformedRequestLine /\ exc = "ValueError" /\ nchunks >= 2
    /\ written = <<>>

\* C6: a run of handle that ends in a framing error ends with the writer
\* closed.
C6_FramingErrorCloses == FramingFailed => closed = 1

\* The outcome of from_stream is the one it has when every byte arrives in
\* one chunk
SameOutcome(one) ==
    IF Framed THEN one.ok /\ one.v = request
    ELSE ~one.ok /\ one.e = exc
SameAsOneChunk == SameOutcome(from_stream_one_chunk(wire))
\* The bytes after the separator are no more than the declared Content-Length
\* (none at all when no Content-Length is declared)
NoExcess(f) == f.ok => (f.body = <<>> \/ f.remaining >= 0)
WithinDeclaredLength == NoExcess(frame(wire))

\* C7, as stated: for every byte sequence and every split of it into chunks
\* with the header block in more than one chunk, from_stream yields the
\* Request of the single-chunk case.
C7_ChunkIndependence == (FramingEnded /\ nchunks >= 2) => SameAsOneChunk

\* C7, amended: the same for every byte sequence that carries no bytes beyond
\* its declared Content-Length (no body bytes when none is declared); the
\* outcome, a Request or the exception raised, is that of the single-chunk
\* case.
C7_ChunkIndependenceWithinLength ==
    (FramingEnded /\ nchunks >= 2 /\ WithinDeclaredLength) => SameAsOneChunk
C7_Witness ==
    /\ Framed /\ nchunks >= 2 /\ WithinDeclaredLength
    /\ remaining > 0 /\ Len(request.body) > remaining
    /\ DictHas(request.query_params, X)

\* C8: resolution returns the handler and path variables of the entry
\* earliest in registration order whose method is the request's and whose
\* matcher matches the whole path, and (None, None) when there is none; with
\* GET /a/<x> registered before GET /a/b, GET /a/b resolves to the /a/<x>
\* handler with x = "b".
EntryMatches(i) ==
    /\ routes[i].m = upper(request.method)
    /\ regex_match(routes[i].regex, request.path, <<>>).ok
Resolved == Framed /\ pc # "resolve"
ScenarioAxThenAb ==
    /\ routes = route(route(<<>>, <<"/","a","/","<","x",">">>, <<GET>>, get_item),
                      <<"/","a","/","b">>, <<GET>>, whoami)
    /\ upper(request.method) = GET
    /\ request.path = <<"/","a","/","b">>
C8_FirstRegisteredWins ==
    Resolved =>
        /\ \A i \in 1..Len(routes) :
              (EntryMatches(i) /\ \A j \in 1..(i - 1) : ~EntryMatches(j)) =>
                  /\ handler = routes[i].handler
                  /\ path_params =
                        DictV(regex_match(routes[i].regex, request.path, <<>>).groups)
        /\ (\A i \in 1..Len(routes) : ~EntryMatches(i)) =>
              (handler = None /\ path_params = None)
        /\ ScenarioAxThenAb =>
              (handler = get_item /\ path_params = DictV(<< <<X, <<"b">>>> >>))
C8_Witness == Resolved /\ ScenarioAxThenAb /\ handler = get_item /\ pc = "done"

\* C9: a parameter other than the reserved one is bound from the first of
\* path variables, query parameters, body fields that provides its name.
Fields(b) == IF b.t = "dict" THEN b.d ELSE <<>>
BodyFields == Fields(Request_json(request))
Bound == args # None
C9_BindingPrecedence ==
    Bound =>
        \A i \in 1..Len(handler.parameters) :
            LET name == handler.parameters[i]
            IN (name # REQUEST /\ DictHas(args.d, name)) =>
                  DictGet(args.d, name) =
                      IF DictHas(path_params.d, name)
                      THEN StrV(DictGet(path_params.d, name))
                      ELSE IF DictHas(request.query_params, name)
                      THEN StrV(DictGet(request.query_params, name))
                      ELSE DictGet(BodyFields, name)
C9_Witness ==
    /\ Bound
    /\ DictHas(path_params.d, X) /\ DictHas(request.query_params, X) /\ DictHas(BodyFields, X)
    /\ DictHas(request.query_params, Y) /\ DictHas(BodyFields, Y)
    /\ DictGet(args.d, X) = StrV(<<"b">>) /\ DictGet(args.d, Y) = StrV(<<"r">>)

\* C10: a handler that declares the reserved parameter request is always
\* given the Request itself under that name.
C10_RequestInjected ==
    (Bound /\ InSeq(REQUEST, handler.parameters)) =>
        DictGet(args.d, REQUEST) = RequestObj(request)

\* The Content-Length a reader of the header block finds (the scan of
\* from_stream, case-insensitive) is the number of bytes after the blank line
DeclaredLengthIsBodyLength(parts) == content_length_of(parts[1]) = Ok(Len(parts[2]))

\* C11: in the bytes written, the Content-Length header equals the number of
\* bytes that follow the blank line ending the header block, whatever the body
\* and whatever headers the caller set.
C11_ContentLengthIsBodyLength ==
    Wrote => DeclaredLengthIsBodyLength(split1(written[1], Separator))

\* The lines of the header block of the bytes written: the status line first
WrittenLines == splitlines(split1(written[1], Separator)[1])
\* The bytes written after the blank line
WrittenBody == split1(written[1], Separator)[2]
\* The handler has returned
Returned == ninvoked = 1 /\ raised = None

\* The bytes written are the Response r: its status code in the status
\* line, its encoded body after the blank line, and a header line for every
\* header it came with (Content-Length apart, which to_bytes recomputes)
Serialized(r) ==
    /\ words(WrittenLines[1])[2] = str(r.status_code)
    /\ WrittenBody = body_bytes_of(r).v
    /\ \A i \in 1..Len(r.headers) :
          r.headers[i][1] # ContentLength =>
              InSeq(r.headers[i][1] \o <<":", " ">> \o r.headers[i][2], Tail(WrittenLines))

\* C12: a Response a handler returns is the one written (its status code,
\* body and headers); any other value is written with status 200 as the body.
C12_ResultIsWritten ==
    (Wrote /\ Returned) =>
        Serialized(IF result.t = "Response" THEN result.resp ELSE DefaultResponse(result))

\* The status line has the form HTTP/1.1 STATUS_CODE REASON for the code
StatusLineFor(line, status_code) ==
    /\ Len(line) >= 3
    /\ line[1] = HTTP11
    /\ line[2] = str(status_code)

\* C13: for every status code, known or not, the first line of the bytes
\* written is HTTP/1.1 STATUS_CODE REASON with the status code of the Response.
C13_StatusLine == Wrote => StatusLineFor(words(WrittenLines[1]), response.status_code)

\* The headers the Response to send was constructed with: those of the
\* Response a handler returned, none for a Response the dispatcher built
ConstructedHeaders ==
    IF Returned /\ result.t = "Response" THEN result.resp.headers ELSE <<>>
\* The Content-Type the claim names for headers h and the Response r
ExpectedContentType(h, r) ==
    IF DictHas(h, ContentType) THEN DictGet(h, ContentType)
    ELSE IF r.body.t \in {"dict", "list"} THEN ApplicationJson
    ELSE r.content_type
\* The header lines named Content-Type among lines
ContentTypeLines(lines) ==
    {lines[i] : i \in {j \in 1..Len(lines) : startswith(lines[j], ContentType \o <<":", " ">>)}}

\* C14: the bytes written carry one Content-Type header: the one the handler
\* set in headers, for every body shape, and when none was set
\* application/json for a mapping or sequence body and the Response's
\* content_type for every other body.
C14_ContentType ==
    Wrote =>
        ContentTypeLines(Tail(WrittenLines)) =
            {ContentType \o <<":", " ">> \o ExpectedContentType(ConstructedHeaders, response)}
C14_Witness ==
    /\ pc = "done" /\ Returned /\ result.t = "Response"
    /\ result.resp.body.t = "dict" /\ DictGet(result.resp.headers, ContentType) = TextHtml
    /\ InSeq(ContentType \o <<":", " ">> \o TextHtml, Tail(WrittenLines))

\* _get_args has been called for the resolved handler
BindingDone == Resolved /\ handler # None /\ pc # "invoke"
\* The declared parameter names for which a source provides a value
Provided ==
    {handler.parameters[i] : i \in
        {j \in 1..Len(handler.parameters) :
            \/ handler.parameters[j] = REQUEST
            \/ DictHas(path_params.d, handler.parameters[j])
            \/ DictHas(request.query_params, handler.parameters[j])
            \/ DictHas(BodyFields, handler.parameters[j])}}

\* C15: _get_args does not fail and binds exactly the declared parameter
\* names that the reserved name, the path variables, the query parameters or
\* the body fields provide; a name no source provides is left unbound.
C15_BoundNames == BindingDone => (Bound /\ DictKeys(args.d) = Provided)

Max(a, b) == IF a > b THEN a ELSE b
\* N: the Content-Length the header block declares, 0 when it declares none
DeclaredLength == content_length_of(request_text).v
\* The header block has a Content-Length line, in any letter case
HasContentLength ==
    \E i \in 1..Len(splitlines(request_text)) :
        startswith(lower(splitlines(request_text)[i]), lower(ContentLength) \o <<":">>)
\* The bytes from_stream took from the stream after the reads that found the
\* separator
FurtherRead == Len(wire) - Len(stream) - Len(header_data)
\* from_stream is past its body read
BodyRead == pc = "from_raw"
\* The body read met the end of the stream
BodyReadFailed == pc = "raised" /\ exc = "IncompleteReadError"

\* C16: with k body bytes captured at the separator and N the declared
\* Content-Length (0 when there is none), from_stream reads max(0, N - k)
\* further bytes: for N > k the body then has N bytes, or framing fails when
\* the stream closes first, and without a Content-Length nothing more is read.
C16_BodyRead ==
    /\ BodyRead =>
          /\ remaining = DeclaredLength - (Len(body) - FurtherRead)
          /\ FurtherRead = Max(0, remaining)
          /\ remaining > 0 => Len(body) = DeclaredLength
          /\ ~HasContentLength => (DeclaredLength = 0 /\ FurtherRead = 0)
    /\ BodyReadFailed =>
          /\ remaining = DeclaredLength - Len(body)
          /\ remaining > 0
          /\ Len(wire) - Len(header_data) < remaining
C16_Witness ==
    /\ BodyRead /\ nchunks >= 2
    /\ remaining > 0 /\ Len(body) > remaining /\ Len(body) = DeclaredLength

\* A template segment that is a placeholder <name>
IsPlaceholder(seg) == Len(seg) > 2 /\ Head(seg) = "<" /\ seg[Len(seg)] = ">"
\* The segments p of a path have the structure of the segments t of a
\* template: as many, a literal segment equal, a placeholder segment non-empty
SameStructure(t, p) ==
    /\ Len(t) = Len(p)
    /\ \A i \in 1..Len(t) : IF IsPlaceholder(t[i]) THEN p[i] # <<>> ELSE t[i] = p[i]
\* Entry i of the route table was compiled from the template
CompiledFrom(i, template) == routes[i].regex = compile(template)

\* C17: a compiled matcher matches a path only if the whole path has the
\* segment structure of its template: literal segments equal, each
\* placeholder one non-empty segment, no segment more or less.
C17_WholePathMatch ==
    Resolved =>
        \A i \in 1..Len(routes) : \A g \in 1..Len(Registrations) :
            (CompiledFrom(i, Registrations[g].path)
             /\ regex_match(routes[i].regex, request.path, <<>>).ok) =>
                SameStructure(split(Registrations[g].path, <<"/">>),
                              split(request.path, <<"/">>))

\* The request body is no key-value document: it does not parse, or parses
\* to something that is no object
NoDocument == Request_json(request).t # "dict"
\* What _get_args binds from the reserved name, the path variables and the
\* query parameters alone
BindingWithoutBody ==
    bind_query(handler.parameters, request.query_params,
               bind_path(handler.parameters, path_params.d,
                         IF InSeq(REQUEST, handler.parameters)
                         THEN << <<REQUEST, RequestObj(request)>> >> ELSE <<>>))

Resolution == get_handler_and_path_params(routes, request.method, request.path)

Connections == 2
TaskChunk == 16

\* The byte sequences the peers send and what the handlers do
TaskWires ==
    { RequestLine(GET, TargetAB) \o CRLF,
      RequestLine(GET, TargetAB)
          \o ContentLength \o <<":", " ", "1", "0">> \o CRLF \o CRLF \o JsonYS,
      RequestLine(DELETE, <<"/","m","i","s","s","i","n","g">>) \o CRLF,
      RequestLine(GET, TargetAB) }
TaskOutcomes ==
    {o \in 1..Len(Outcomes) :
        IF Outcomes[o].kind = "raise" THEN Outcomes[o].text = Boom
        ELSE Outcomes[o].value.t \in {"str", "dict"}}

\* The variables of the single connection
connection ==
    <<pc, stream, header_data, request_text, body, remaining, request, handler,
      path_params, args, result, raised, response, written, closed, exc, wire,
      nchunks, ninvoked>>

\* The locals of one run of handle, and as history the bytes of the peer,
\* the chunks reader.read returned and what the handler did
NewTask(w) ==
    [pc |-> "read_header", stream |-> w, header_data |-> <<>>, request_text |-> <<>>,
     body |-> <<>>, remaining |-> 0, written |-> <<>>, closed |-> 0, exc |-> "none",
     wire |-> w, chunks |-> <<>>, outcome |-> 1]

\* handle, lines 232-249, as the Response for what resolution found
call(h, kwargs, outcome) ==
    IF ~kwargs.ok \/ missing_arguments(h, kwargs.v)
    THEN error_response(Exception("TypeError", InterpreterMessage))
    ELSE IF outcome.kind = "raise" THEN error_response(Exception("Exception", outcome.text))
    ELSE IF outcome.value.t = "Response" THEN outcome.value.resp
    ELSE DefaultResponse(outcome.value)
serve_found(found, req, outcome) ==
    IF found.handler = None THEN Response404
    ELSE call(found.handler, _get_args(found.handler, req, found.path_params), outcome)

\* handle, lines 229-249: the Response for the Request req
serve(table, req, outcome) ==
    serve_found(get_handler_and_path_params(table, req.method, req.path), req, outcome)

\* An exception leaves the task t
TaskRaise(t, e) == [t EXCEPT !.pc = "raised", !.exc = e]

\* from_stream, lines 95-104, for the outcome f of frame
TaskFramed(t, f) ==
    IF ~f.ok THEN TaskRaise(t, f.e)
    ELSE [t EXCEPT !.request_text = f.request_text, !.body = f.body,
                   !.remaining = f.remaining,
                   !.pc = IF f.remaining > 0 THEN "read_body" ELSE "from_raw"]

\* from_stream, lines 89-93: the buffer after a read, and the task once the
\* loop has ended
TaskBuffered(t, chunk, data) ==
    [t EXCEPT !.header_data = data, !.chunks = Append(@, chunk),
              !.stream = SubSeq(@, Len(chunk) + 1, Len(@))]
TaskAfterRead(t) ==
    IF contains(t.header_data, Separator) THEN TaskFramed(t, frame(t.header_data)) ELSE t

\* Mutant of buffer_of: every task accumulates into the buffer of the first
buffer_of_shared(c) == tasks[1].header_data

\* from_stream, line 89: header_data is a local of the task
buffer_of(c) == tasks[c].header_data

\* handle, line 252, for the outcome b of to_bytes
TaskWrite(t, b) ==
    IF b.ok THEN [t EXCEPT !.written = Append(@, b.v), !.pc = "drain"] ELSE TaskRaise(t, b.e)

\* from_stream, lines 107-109, and handle, lines 229-252, for the outcome r
\* of from_raw
TaskServe(t, r, o) ==
    IF ~r.ok THEN TaskRaise(t, r.e)
    ELSE TaskWrite([t EXCEPT !.outcome = o], to_bytes(serve(routes, r.v, Outcomes[o])))

\* asyncio.start_server(self.handle, ...): a task per accepted connection;
\* a task does nothing before its first step
Run ==
    /\ tasks = <<>>
    /\ \E ws \in [1..Connections -> TaskWires] :
          tasks' = [c \in 1..Connections |-> NewTask(ws[c])]
    /\ UNCHANGED <<routes, connection>>

\* route() is called before run()
Register == tasks = <<>> /\ Route

\* await reader.read(1024): the task resumes with a chunk, or with b"" at
\* the end of the stream, and runs up to its next await
TaskRead(c) ==
    /\ tasks # <<>>
    /\ tasks[c].pc = "read_header"
    /\ IF tasks[c].stream = <<>>
       THEN tasks' = [tasks EXCEPT ![c] = TaskFramed(@, frame(buffer_of(c)))]
       ELSE \E n \in {Min(TaskChunk, Len(tasks[c].stream)),
                      Min(ReadSize, Len(tasks[c].stream))} :
               tasks' = [tasks EXCEPT ![c] =
                            TaskAfterRead(TaskBuffered(@, SubSeq(@.stream, 1, n),
                                accumulate(buffer_of(c), SubSeq(@.stream, 1, n))))]
    /\ UNCHANGED <<routes, connection>>

\* await reader.readexactly(remaining)
TaskReadBody(c) ==
    /\ tasks # <<>>
    /\ tasks[c].pc = "read_body"
    /\ tasks' = [tasks EXCEPT ![c] =
                    IF Len(@.stream) >= @.remaining
                    THEN [@ EXCEPT !.body = @ \o SubSeq(tasks[c].stream, 1, tasks[c].remaining),
                                   !.stream = SubSeq(@, tasks[c].remaining + 1, Len(@)),
                                   !.pc = "from_raw"]
                    ELSE TaskRaise([@ EXCEPT !.stream = <<>>], "IncompleteReadError")]
    /\ UNCHANGED <<routes, connection>>

\* from_stream returns; handle resolves, binds, awaits the handler and
\* writes, up to await writer.drain()
TaskRespond(c) ==
    /\ tasks # <<>>
    /\ tasks[c].pc = "from_raw"
    /\ \E o \in TaskOutcomes :
          tasks' = [tasks EXCEPT ![c] = TaskServe(@, finish(@.request_text, @.body), o)]
    /\ UNCHANGED <<routes, connection>>

\* await writer.drain() returns, writer.close()
TaskDrain(c) ==
    /\ tasks # <<>>
    /\ tasks[c].pc = "drain"
    /\ tasks' = [tasks EXCEPT ![c] = [@ EXCEPT !.pc = "done", !.closed = @ + 1]]
    /\ UNCHANGED <<routes, connection>>

NextConcurrent ==
    \/ Register
    \/ Run
    \/ \E c \in 1..Connections : TaskRead(c)
    \/ \E c \in 1..Connections : TaskReadBody(c)
    \/ \E c \in 1..Connections : TaskRespond(c)
    \/ \E c \in 1..Connections : TaskDrain(c)

SpecConcurrent == Init /\ [][NextConcurrent]_vars

\* handle run alone on a connection whose reads return the chunks: what it
\* writes and whether it closes
RECURSIVE AloneHeader(_, _)
AloneHeader(chunks, data) ==
    IF chunks = <<>> \/ contains(data, Separator) THEN data
    ELSE AloneHeader(Tail(chunks), accumulate(data, Head(chunks)))
NothingWritten == [written |-> <<>>, closed |-> 0]
AloneSent(b) == IF b.ok THEN [written |-> <<b.v>>, closed |-> 1] ELSE NothingWritten
AloneServed(r, o, table) ==
    IF ~r.ok THEN NothingWritten ELSE AloneSent(to_bytes(serve(table, r.v, Outcomes[o])))
AloneFramed(f, rest, o, table) ==
    IF ~f.ok THEN NothingWritten
    ELSE IF f.remaining > Len(rest) THEN NothingWritten
    ELSE AloneServed(finish(f.request_text, f.body \o SubSeq(rest, 1, f.remaining)), o, table)
AloneRead(data, w, o, table) ==
    AloneFramed(frame(data), SubSeq(w, Len(data) + 1, Len(w)), o, table)
Alone(t, table) == AloneRead(AloneHeader(t.chunks, <<>>), t.wire, t.outcome, table)

\* The task has returned or raised
TaskEnded(c) == tasks[c].pc \in {"done", "raised"}

\* C20: with connections handled concurrently, their steps interleaved at
\* the awaits, every connection gets the response it gets when handled alone
\* against the same route table, and no step of a task changes the table.
C20_ConnectionsIndependent ==
    /\ [](tasks # <<>> =>
            \A c \in 1..Connections :
                TaskEnded(c) =>
                    [written |-> tasks[c].written, closed |-> tasks[c].closed]
                        = Alone(tasks[c], routes))
    /\ [][tasks # <<>> => routes' = routes]_vars
C20_Witness ==
    /\ tasks # <<>>
    /\ tasks[1].pc = "done" /\ Len(tasks[1].chunks) >= 2 /\ Len(tasks[1].written) = 1
    /\ tasks[2].pc = "read_body" /\ tasks[2].chunks # <<>>
    /\ tasks[1].wire # tasks[2].wire

====
